---- MODULE Spec2Model ----
(***************************************************************************)
(* Banking risk warehouse: the risk calculation engine                     *)
(* (src/src/risk_calculator.py) and the REST boundary that calls it        *)
(* (src/api/risk_api.py).                                                  *)
(*                                                                         *)
(* A behaviour is one call, or two calls in a row with the same argument   *)
(* objects: Init draws the operation and its arguments, the operation's    *)
(* action runs the whole function (its try/except included) and stores     *)
(* what the caller gets back.  Python floats are modelled as exact         *)
(* rationals n/d; d = 0 encodes the IEEE values NaN (n = 0) and +-inf.     *)
(***************************************************************************)
EXTENDS Integers, Sequences, FiniteSets, TLC

VARIABLES
    pc,         \* "ready" before the call, "done" after it returned,
                \* "repeated" after a second call with the same arguments
    op,         \* the function or endpoint being called
    args,       \* the caller's argument objects (a record, by parameter name)
    ret,        \* what the call returned (the response body for an endpoint)
    calls,      \* calculator methods the endpoint handler invoked, in order
    fell_back,  \* calculator methods whose except clause ran
    again,      \* what the second call returned
    np_random,  \* numpy's global random state (np.random)
    np_empty_percentile  \* what the installed numpy does for np.percentile([])

vars == <<pc, op, args, ret, calls, fell_back, again, np_random, np_empty_percentile>>

-----------------------------------------------------------------------------
(* Bounds of the model.                                                    *)

MaxReturns == 3      \* longest return sample
MaxEvents == 3       \* longest loss-event list
MaxExposures == 2    \* most rows of an exposures table
MaxPositions == 2    \* most rows of a portfolio table
SqrtScale == 100     \* np.sqrt is computed to 1/SqrtScale (rounded down)

-----------------------------------------------------------------------------
(* Float arithmetic as exact rationals.                                    *)

Abs(x) == IF x < 0 THEN -x ELSE x

Sign(x) == IF x < 0 THEN -1 ELSE IF x > 0 THEN 1 ELSE 0

RECURSIVE GCD(_, _)
GCD(a, b) == IF b = 0 THEN a ELSE GCD(b, a % b)

\* The rational n/d in lowest terms, d > 0.
Rat(n, d) ==
    LET s == IF d < 0 THEN -1 ELSE 1
        g == GCD(Abs(n), Abs(d))
    IN  [n |-> (s * n) \div g, d |-> (s * d) \div g]

Num(i) == [n |-> i, d |-> 1]

NaN == [n |-> 0, d |-> 0]

Inf(s) == [n |-> s, d |-> 0]

\* Python None and a str, where a caller passes one for a number.
None == [none |-> TRUE]

IsNum(x) == DOMAIN x = {"n", "d"}

IsNaN(x) == IsNum(x) /\ x.d = 0 /\ x.n = 0

IsFinite(x) == IsNum(x) /\ x.d > 0

\* IEEE: an operation with a NaN operand is NaN, inf - inf and 0 * inf are NaN.
FAdd(a, b) ==
    IF IsNaN(a) \/ IsNaN(b) THEN NaN
    ELSE IF a.d = 0 /\ b.d = 0 THEN (IF a.n = b.n THEN a ELSE NaN)
    ELSE IF a.d = 0 THEN a
    ELSE IF b.d = 0 THEN b
    ELSE Rat(a.n * b.d + b.n * a.d, a.d * b.d)

FNeg(a) == [n |-> -a.n, d |-> a.d]

FSub(a, b) == FAdd(a, FNeg(b))

FMul(a, b) ==
    IF IsNaN(a) \/ IsNaN(b) THEN NaN
    ELSE IF a.d = 0 \/ b.d = 0
         THEN (IF a.n = 0 \/ b.n = 0 THEN NaN ELSE Inf(Sign(a.n) * Sign(b.n)))
    ELSE Rat(a.n * b.n, a.d * b.d)

\* numpy / pandas division: x/0 is +-inf, 0/0 is NaN, no exception.
FDiv(a, b) ==
    IF IsNaN(a) \/ IsNaN(b) THEN NaN
    ELSE IF b.d = 0 THEN (IF a.d = 0 THEN NaN ELSE Num(0))
    ELSE IF b.n = 0 THEN (IF a.n = 0 THEN NaN ELSE Inf(Sign(a.n)))
    ELSE IF a.d = 0 THEN Inf(Sign(a.n) * Sign(b.n))
    ELSE Rat(a.n * b.d, a.d * b.n)

\* Comparisons; every comparison with NaN is false.
FLe(a, b) ==
    /\ ~IsNaN(a) /\ ~IsNaN(b)
    /\ IF a.d = 0 /\ b.d = 0 THEN a.n <= b.n
       ELSE IF a.d = 0 THEN a.n < 0
       ELSE IF b.d = 0 THEN b.n > 0
       ELSE a.n * b.d <= b.n * a.d

FLt(a, b) == FLe(a, b) /\ ~FLe(b, a)

FMax(a, b) == IF FLe(a, b) THEN b ELSE a

\* floor(sqrt(x)) for an integer x >= 0, by bisection: lo^2 <= x < hi^2.
RECURSIVE ISqrtIn(_, _, _)
ISqrtIn(x, lo, hi) ==
    IF hi - lo <= 1 THEN lo
    ELSE LET mid == (lo + hi) \div 2
         IN  IF mid * mid <= x THEN ISqrtIn(x, mid, hi) ELSE ISqrtIn(x, lo, mid)

ISqrt(x) == ISqrtIn(x, 0, IF x < 46340 THEN x + 1 ELSE 46340)

\* np.sqrt of a finite rational >= 0, to 1/SqrtScale.
FSqrt(a) ==
    IF ~IsFinite(a) THEN a
    ELSE Rat(ISqrt((a.n * SqrtScale * SqrtScale) \div a.d), SqrtScale)

\* The elements of a sequence of floats.
RECURSIVE FSum(_)
FSum(s) == IF s = <<>> THEN Num(0) ELSE FAdd(Head(s), FSum(Tail(s)))

\* np.mean: the sum over the length; NaN for an empty array.
FMean(s) == FDiv(FSum(s), Num(Len(s)))

\* np.std: the population standard deviation, sqrt(mean((x - mean)^2)).
FStd(s) ==
    LET m == FMean(s)
        sq == [i \in 1..Len(s) |-> FMul(FSub(s[i], m), FSub(s[i], m))]
    IN  FSqrt(FMean(sq))

\* Slip: the first element taken for the largest.
FFirstOf(s) == s[1]

\* np.max of a non-empty array.
RECURSIVE FMaxOf(_)
FMaxOf(s) == IF Len(s) = 1 THEN s[1] ELSE FMax(s[1], FMaxOf(Tail(s)))

\* A Python dict with no key.
EmptyDict == [k \in {} |-> 0]

\* Sequences over S of length lo..hi.
SeqsOf(S, lo, hi) == UNION {[1..k -> S] : k \in lo..hi}

-----------------------------------------------------------------------------
(* Tables.  A pandas DataFrame is its set of column names and its rows in  *)
(* order, each row a function from the column names to cells.  Cells of    *)
(* exposure_type and asset_class are strings, every other cell is a float. *)

\* df[c] = series (one cell per row), for a new or an existing column c.
AddCol(t, c, series) ==
    [cols |-> t.cols \cup {c},
     rows |-> [i \in 1..Len(t.rows) |->
                 [k \in t.cols \cup {c} |-> IF k = c THEN series[i] ELSE t.rows[i][k]]]]

\* df[c] as a sequence.
Col(t, c) == [i \in 1..Len(t.rows) |-> t.rows[i][c]]

\* Series.sum(): NaN cells are skipped.
RECURSIVE SumSkipNa(_)
SumSkipNa(s) ==
    IF s = <<>> THEN Num(0)
    ELSE FAdd(IF IsNaN(Head(s)) THEN Num(0) ELSE Head(s), SumSkipNa(Tail(s)))

\* pd.DataFrame(list of dicts): the columns are the union of the keys, a key
\* missing from a row is a NaN cell.
DataFrame(records) ==
    LET cols == UNION {DOMAIN records[i] : i \in 1..Len(records)}
    IN  [cols |-> cols,
         rows |-> [i \in 1..Len(records) |->
                     [k \in cols |-> IF k \in DOMAIN records[i]
                                     THEN records[i][k] ELSE NaN]]]

-----------------------------------------------------------------------------
(* RegulatoryReporting                                                     *)

basel_risk_weights ==
    [sovereign |-> Num(0), bank |-> Rat(2, 10), corporate |-> Num(1),
     retail |-> Rat(75, 100), residential_mortgage |-> Rat(35, 100),
     commercial_real_estate |-> Num(1)]

\* Slip: fillna(0.0).
RiskWeightFillZero(exposure_type) ==
    IF exposure_type \in DOMAIN basel_risk_weights
    THEN basel_risk_weights[exposure_type] ELSE Num(0)

\* Series.map(basel_risk_weights).fillna(1.0) on one cell.
RiskWeightOf(exposure_type) ==
    IF exposure_type \in DOMAIN basel_risk_weights
    THEN basel_risk_weights[exposure_type] ELSE Num(1)

\* The IRB scalar of line 265, 12.5.
IrbScalar == Rat(125, 10)

\* RegulatoryReporting.calculate_rwa.  A missing column raises KeyError at
\* the statement that reads it; the except clause returns the local copy as
\* it is then (line 251 rebinds the name exposures to the copy).
calculate_rwa(exposures) ==
    LET rows == 1..Len(exposures.rows)
        t1 == AddCol(exposures, "risk_weight",
                     [i \in rows |-> RiskWeightOf(exposures.rows[i]["exposure_type"])])
        t2 == AddCol(t1, "rwa",
                     [i \in rows |-> FMul(t1.rows[i]["amount"], t1.rows[i]["risk_weight"])])
        t3 == AddCol(t2, "rwa_irb",
                     [i \in rows |-> FMul(FMul(FMul(t2.rows[i]["amount"], t2.rows[i]["pd"]),
                                               t2.rows[i]["lgd"]), IrbScalar)])
    IN  IF "exposure_type" \notin exposures.cols THEN exposures
        ELSE IF "amount" \notin exposures.cols THEN t1
        ELSE IF "pd" \in exposures.cols /\ "lgd" \in exposures.cols THEN t3
        ELSE t2

\* The try block of calculate_rwa raises KeyError: the weight lookup reads
\* exposure_type, the product reads amount.
RwaRaises(exposures) ==
    "exposure_type" \notin exposures.cols \/ "amount" \notin exposures.cols

\* The caller's table after calculate_rwa: line 251 rebinds the name to a
\* deep copy before the first write, so the argument is only read.
ExposuresAfterRwa(exposures) == exposures

\* The CET1 share of tier 1 capital (line 297) and the leverage factor
\* (line 300).
Cet1Share == Rat(9, 10)

LeverageFactor == Rat(3, 100)

\* Slip: no total_rwa <= 0 guard; the division by zero raises and the
\* except clause returns {}.
calculate_capital_ratios_unguarded(tier1_capital, tier2_capital, total_rwa) ==
    IF ~IsNum(total_rwa) \/ ~IsNum(tier1_capital) \/ ~IsNum(tier2_capital)
       \/ total_rwa.n = 0
    THEN EmptyDict
    ELSE [cet1_ratio |-> FDiv(FMul(tier1_capital, Cet1Share), total_rwa),
          tier1_ratio |-> FDiv(tier1_capital, total_rwa),
          total_capital_ratio |-> FDiv(FAdd(tier1_capital, tier2_capital), total_rwa),
          leverage_ratio |-> FDiv(tier1_capital, FMul(total_rwa, LeverageFactor))]

\* Slip: tier 2 capital left out of the total.
calculate_capital_ratios_no_tier2(tier1_capital, tier2_capital, total_rwa) ==
    IF ~IsNum(total_rwa) THEN EmptyDict
    ELSE IF FLe(total_rwa, Num(0))
    THEN [cet1_ratio |-> Num(0), tier1_ratio |-> Num(0), total_capital_ratio |-> Num(0)]
    ELSE IF ~IsNum(tier1_capital) \/ ~IsNum(tier2_capital) THEN EmptyDict
    ELSE [cet1_ratio |-> FDiv(FMul(tier1_capital, Cet1Share), total_rwa),
          tier1_ratio |-> FDiv(tier1_capital, total_rwa),
          total_capital_ratio |-> FDiv(tier1_capital, total_rwa),
          leverage_ratio |-> FDiv(tier1_capital, FMul(total_rwa, LeverageFactor))]

\* The try block of calculate_capital_ratios raises: total_rwa <= 0 is
\* evaluated first, past it the arithmetic on None raises TypeError.
CapitalRatiosRaises(tier1_capital, tier2_capital, total_rwa) ==
    \/ ~IsNum(total_rwa)
    \/ ~FLe(total_rwa, Num(0)) /\ (~IsNum(tier1_capital) \/ ~IsNum(tier2_capital))

\* RegulatoryReporting.calculate_capital_ratios.  Comparing or adding None
\* raises TypeError, which the except clause turns into {}.
calculate_capital_ratios(tier1_capital, tier2_capital, total_rwa) ==
    IF ~IsNum(total_rwa) THEN EmptyDict
    ELSE IF FLe(total_rwa, Num(0))
    THEN [cet1_ratio |-> Num(0), tier1_ratio |-> Num(0), total_capital_ratio |-> Num(0)]
    ELSE IF ~IsNum(tier1_capital) \/ ~IsNum(tier2_capital) THEN EmptyDict
    ELSE [cet1_ratio |-> FDiv(FMul(tier1_capital, Cet1Share), total_rwa),
          tier1_ratio |-> FDiv(tier1_capital, total_rwa),
          total_capital_ratio |-> FDiv(FAdd(tier1_capital, tier2_capital), total_rwa),
          leverage_ratio |-> FDiv(tier1_capital, FMul(total_rwa, LeverageFactor))]


-----------------------------------------------------------------------------
(* Stress test                                                             *)

\* The shock keys run_stress_test reads from the scenario.
ShockKeys == {"equity_shock", "interest_rate_shock", "credit_spread_shock"}

\* Series.fillna(5) on one duration cell (line 329).
DefaultDuration == Num(5)

FillDuration(cell) == IF IsNaN(cell) THEN DefaultDuration ELSE cell

\* df.loc[df['asset_class'] == cls, 'value'] *= factor, factor a scalar.
ShockRows(t, cls, factor) ==
    [cols |-> t.cols,
     rows |-> [i \in 1..Len(t.rows) |->
                 IF t.rows[i]["asset_class"] = cls
                 THEN [t.rows[i] EXCEPT !["value"] = FMul(@, factor)]
                 ELSE t.rows[i]]]

\* df.loc[mask, 'value'] *= (1 - duration * rate_change), duration the
\* masked rows' duration cells with NaN filled by 5.
ShockByDuration(t, cls, rate_change) ==
    [cols |-> t.cols,
     rows |-> [i \in 1..Len(t.rows) |->
                 IF t.rows[i]["asset_class"] = cls
                 THEN [t.rows[i] EXCEPT !["value"] =
                          FMul(@, FSub(Num(1), FMul(FillDuration(t.rows[i]["duration"]),
                                                    rate_change)))]
                 ELSE t.rows[i]]]

\* The statements of the try block that raise KeyError: a shock's mask reads
\* asset_class and its update reads value, the interest-rate shock reads the
\* duration column, and the loss columns read value.
StressTestRaises(portfolio, scenario) ==
    \/ /\ DOMAIN scenario \cap ShockKeys # {}
       /\ ~({"asset_class", "value"} \subseteq portfolio.cols)
    \/ /\ "interest_rate_shock" \in DOMAIN scenario
       /\ "duration" \notin portfolio.cols
    \/ "value" \notin portfolio.cols

\* The try block of run_stress_test, for a portfolio on which it does not raise.
StressedPortfolio(portfolio, scenario) ==
    LET s1 == IF "equity_shock" \in DOMAIN scenario
              THEN ShockRows(portfolio, "equity", FAdd(Num(1), scenario["equity_shock"]))
              ELSE portfolio
        s2 == IF "interest_rate_shock" \in DOMAIN scenario
              THEN ShockByDuration(s1, "fixed_income", scenario["interest_rate_shock"])
              ELSE s1
        s3 == IF "credit_spread_shock" \in DOMAIN scenario
              THEN ShockRows(s2, "corporate_bond",
                             FAdd(Num(1), scenario["credit_spread_shock"]))
              ELSE s2
        s4 == AddCol(s3, "loss",
                     [i \in 1..Len(s3.rows) |->
                        FSub(portfolio.rows[i]["value"], s3.rows[i]["value"])])
    IN  AddCol(s4, "loss_pct",
               [i \in 1..Len(s4.rows) |->
                  FMul(FDiv(s4.rows[i]["loss"], portfolio.rows[i]["value"]), Num(100))])

\* run_stress_test: the except clause returns the caller's portfolio.
run_stress_test(portfolio, scenario) ==
    IF StressTestRaises(portfolio, scenario) THEN portfolio
    ELSE StressedPortfolio(portfolio, scenario)

\* Slip: no copy, the shocks and the loss columns are written to the
\* caller's table.
PortfolioWrittenInPlace(portfolio, scenario) == run_stress_test(portfolio, scenario)

\* The caller's table after run_stress_test: line 320 binds the writes to a
\* deep copy, so the argument is only read.
PortfolioAfterStressTest(portfolio, scenario) == portfolio

-----------------------------------------------------------------------------
(* OperationalRiskCalculator                                               *)

\* The multiple of the standard deviation in the capital rule (line 212).
StdMultiple == 3

\* What lines 201 and 224 return.
OperationalRiskDefault == [capital_requirement |-> Num(0), expected_loss |-> Num(0)]

\* The try block of calculate_operational_risk_capital raises.
OperationalRiskRaises(loss_events) ==
    /\ loss_events # <<>>
    /\ \E i \in 1..Len(loss_events) : "amount" \notin DOMAIN loss_events[i]

\* calculate_operational_risk_capital.  event['amount'] raises KeyError for
\* an event without the key; the except clause returns the two-key default.
calculate_operational_risk_capital(loss_events) ==
    IF loss_events = <<>> THEN OperationalRiskDefault
    ELSE IF \E i \in 1..Len(loss_events) : "amount" \notin DOMAIN loss_events[i]
    THEN OperationalRiskDefault
    ELSE LET losses == [i \in 1..Len(loss_events) |-> loss_events[i]["amount"]]
             mean_loss == FMean(losses)
             std_loss == FStd(losses)
         IN  [expected_loss |-> mean_loss,
              std_dev |-> std_loss,
              max_loss |-> FMaxOf(losses),
              capital_requirement |-> FAdd(mean_loss, FMul(Num(StdMultiple), std_loss)),
              loss_count |-> Len(losses)]


-----------------------------------------------------------------------------
(* MarketRiskCalculator                                                    *)

\* sorted(s), ascending.
RECURSIVE Insert(_, _)
Insert(x, s) ==
    IF s = <<>> THEN <<x>>
    ELSE IF FLe(x, Head(s)) THEN <<x>> \o s
    ELSE <<Head(s)>> \o Insert(x, Tail(s))

RECURSIVE Sorted(_)
Sorted(s) == IF s = <<>> THEN <<>> ELSE Insert(Head(s), Sorted(Tail(s)))

\* np.percentile(a, q) for a non-empty a and 0 <= q <= 100: linear
\* interpolation between the order statistics around (len(a) - 1) * q / 100.
Percentile(a, q) ==
    LET srt == Sorted(a)
        n == Len(a)
        virtual == FDiv(FMul(Num(n - 1), q), Num(100))
        lo == virtual.n \div virtual.d
        gamma == FSub(virtual, Num(lo))
        hi == IF lo + 1 > n - 1 THEN n - 1 ELSE lo + 1
    IN  FAdd(srt[lo + 1], FMul(gamma, FSub(srt[hi + 1], srt[lo + 1])))

\* Slip: the confidence level itself taken as the percentile.
PercentileOfConfidence(confidence_level) == FMul(confidence_level, Num(100))

\* The percentile _historical_var asks for (line 147).
PercentileOf(confidence_level) == FMul(FSub(Num(1), confidence_level), Num(100))

\* np.percentile raises ValueError for q outside [0, 100]; on an empty array
\* it raises IndexError or returns NaN, depending on the numpy release
\* (np_empty_percentile).
HistoricalVarRaises(confidence_level, returns, np_empty) ==
    \/ ~(FLe(Num(0), PercentileOf(confidence_level))
         /\ FLe(PercentileOf(confidence_level), Num(100)))
    \/ returns = <<>> /\ np_empty = "IndexError"

_historical_var(confidence_level, returns) ==
    IF returns = <<>> THEN NaN
    ELSE Percentile(returns, PercentileOf(confidence_level))

\* scipy.stats.norm.ppf on the probabilities the model draws, to 3 decimals;
\* NaN outside [0, 1].
NormPpf(p) ==
    IF ~FLe(Num(0), p) \/ ~FLe(p, Num(1)) THEN NaN
    ELSE IF p = Rat(1, 2) THEN Num(0)
    ELSE IF p = Rat(1, 10) THEN Rat(-1282, 1000)
    ELSE IF p = Rat(1, 20) THEN Rat(-1645, 1000)
    ELSE IF p = Rat(1, 100) THEN Rat(-2326, 1000)
    ELSE NaN

_parametric_var(confidence_level, returns) ==
    FAdd(FMean(returns),
         FMul(NormPpf(FSub(Num(1), confidence_level)), FStd(returns)))

\* numpy's global random state: rng is the position in the generator's
\* stream, StdNormalAt the standard-normal value the stream holds there.
RngPeriod == 3

StdNormalAt(rng) == Num((rng % RngPeriod) - 1)

\* Draws per np.random.normal call: stands for n_simulations = 10000.
MaxSimulations == 2

\* np.random.normal(mean, std, n) with the global state at rng.
RandomNormal(rng, mean, std, n) ==
    [i \in 1..n |-> FAdd(mean, FMul(StdNormalAt(rng + i - 1), std))]

RngAfter(rng, n) == (rng + n) % RngPeriod

_monte_carlo_var(confidence_level, returns, rng) ==
    LET simulated_returns ==
            RandomNormal(rng, FMean(returns), FStd(returns), MaxSimulations)
    IN  IF HistoricalVarRaises(confidence_level, simulated_returns, "nan")
        THEN [raised |-> TRUE, value |-> NaN]
        ELSE [raised |-> FALSE,
              value |-> _historical_var(confidence_level, simulated_returns)]

VarMethods == {"historical", "parametric", "monte_carlo"}

\* MarketRiskCalculator.calculate_var; self is the confidence level.  An
\* unknown method raises ValueError inside the try block, and the except
\* clause of the same function returns 0.0.
calculate_var(confidence_level, returns, method, rng, np_empty) ==
    IF method = "historical"
    THEN IF HistoricalVarRaises(confidence_level, returns, np_empty) THEN Num(0)
         ELSE _historical_var(confidence_level, returns)
    ELSE IF method = "parametric"
    THEN _parametric_var(confidence_level, returns)
    ELSE IF method = "monte_carlo"
    THEN IF _monte_carlo_var(confidence_level, returns, rng).raised THEN Num(0)
         ELSE _monte_carlo_var(confidence_level, returns, rng).value
    ELSE Num(0)

\* The try block of calculate_var raises.
VarRaises(confidence_level, returns, method, rng, np_empty) ==
    IF method = "historical"
    THEN HistoricalVarRaises(confidence_level, returns, np_empty)
    ELSE IF method = "parametric" THEN FALSE
    ELSE IF method = "monte_carlo"
    THEN _monte_carlo_var(confidence_level, returns, rng).raised
    ELSE TRUE

\* Slip: returns[returns >= var], the other tail.
RECURSIVE UpperTail(_, _)
UpperTail(returns, var) ==
    IF returns = <<>> THEN <<>>
    ELSE IF FLe(var, Head(returns))
    THEN <<Head(returns)>> \o UpperTail(Tail(returns), var)
    ELSE UpperTail(Tail(returns), var)

\* returns[returns <= var]
RECURSIVE TailLosses(_, _)
TailLosses(returns, var) ==
    IF returns = <<>> THEN <<>>
    ELSE IF FLe(Head(returns), var)
    THEN <<Head(returns)>> \o TailLosses(Tail(returns), var)
    ELSE TailLosses(Tail(returns), var)

\* MarketRiskCalculator.calculate_cvar.
calculate_cvar(confidence_level, returns, np_empty) ==
    IF HistoricalVarRaises(confidence_level, returns, np_empty) THEN Num(0)
    ELSE LET var == _historical_var(confidence_level, returns)
             tail_losses == TailLosses(returns, var)
         IN  IF Len(tail_losses) > 0 THEN FMean(tail_losses) ELSE var


-----------------------------------------------------------------------------
(* CreditRiskCalculator                                                    *)

\* The order of two finite rationals without forming cross products: -1, 0
\* or 1 as an/ad is below, equal to or above bn/bd (ad, bd > 0).
RECURSIVE CmpFrac(_, _, _, _)
CmpFrac(an, ad, bn, bd) ==
    LET qa == an \div ad
        qb == bn \div bd
        ra == an % ad
        rb == bn % bd
    IN  IF qa # qb THEN (IF qa < qb THEN -1 ELSE 1)
        ELSE IF ra = 0 \/ rb = 0
        THEN (IF ra = rb THEN 0 ELSE IF ra = 0 THEN -1 ELSE 1)
        ELSE -CmpFrac(ad, ra, bd, rb)

\* a < b on floats; false when either is NaN.
FLess(a, b) ==
    IF IsFinite(a) /\ IsFinite(b) THEN CmpFrac(a.n, a.d, b.n, b.d) = -1
    ELSE FLt(a, b)

\* The builtins max(a, b) and min(a, b): the first argument unless the second
\* is strictly beyond it, so a NaN first argument is returned as it is.
PyMax(a, b) == IF FLess(a, b) THEN b ELSE a

PyMin(a, b) == IF FLess(b, a) THEN b ELSE a

\* floor(100 * e^k) for k = 0..15, and floor(1000 * e^(j/4)) for j = 0..4.
ExpOfInt ==
    <<100, 271, 738, 2008, 5459, 14841, 40342, 109663, 298095, 810308,
      2202646, 5987414, 16275479, 44241339, 120260428, 326901737>>

ExpOfQuarter == <<1000, 1284, 1648, 2117, 2718>>

\* floor(100 * e^x) to within 1 per cent for a rational 0 <= x < 16: the
\* table value at floor(x) times the quarter table, linear inside a quarter.
ExpHundredths(x) ==
    LET k == x.n \div x.d
        fn == x.n % x.d
        j == (4 * fn) \div x.d
        gn == (4 * fn) % x.d
        q == ExpOfQuarter[j + 1]
               + (gn * (ExpOfQuarter[j + 2] - ExpOfQuarter[j + 1])) \div x.d
        t == ExpOfInt[k + 1]
    IN  (t \div 1000) * q + ((t % 1000) * q) \div 1000

\* np.exp: non-decreasing, exp(-x) = 1/exp(x), NaN for NaN, no exception.
\* The table ends at e^15; beyond it the model overflows to inf (np.exp does
\* past 709), which calculate_pd clamps to the same value either way.
np_exp(x) ==
    IF IsNaN(x) THEN NaN
    ELSE IF x.d = 0 THEN (IF x.n > 0 THEN Inf(1) ELSE Num(0))
    ELSE IF x.n >= 0
    THEN (IF x.n \div x.d >= Len(ExpOfInt) THEN Inf(1)
          ELSE Rat(ExpHundredths(x), 100))
    ELSE IF (-x.n) \div x.d >= Len(ExpOfInt) THEN Num(0)
    ELSE Rat(100, ExpHundredths(FNeg(x)))

\* Slip: the delinquency coefficient with the wrong sign.
pd_model_params_negated ==
    [intercept |-> Rat(-5, 2), credit_score_coef |-> Rat(-15, 1000),
     debt_ratio_coef |-> Rat(12, 10), delinquency_coef |-> Rat(-8, 10)]

\* self.pd_model_params
pd_model_params ==
    [intercept |-> Rat(-5, 2), credit_score_coef |-> Rat(-15, 1000),
     debt_ratio_coef |-> Rat(12, 10), delinquency_coef |-> Rat(8, 10)]

\* The clamp of calculate_pd (line 48) and its fallback (line 52).
PdFloor == Rat(1, 10000)

PdCap == Rat(9999, 10000)

PdDefault == Rat(5, 100)

\* Arithmetic on None raises TypeError inside the try block.
PdRaises(credit_score, debt_ratio, delinquency_count) ==
    ~IsNum(credit_score) \/ ~IsNum(debt_ratio) \/ ~IsNum(delinquency_count)

\* The logistic value before the clamp (lines 42-47).
Logistic(credit_score, debt_ratio, delinquency_count) ==
    LET logit ==
            FAdd(FAdd(FAdd(pd_model_params.intercept,
                           FMul(pd_model_params.credit_score_coef, credit_score)),
                      FMul(pd_model_params.debt_ratio_coef, debt_ratio)),
                 FMul(pd_model_params.delinquency_coef, delinquency_count))
    IN  FDiv(Num(1), FAdd(Num(1), np_exp(FNeg(logit))))

\* Slip: the logistic value returned without the clamp.
calculate_pd_unclamped(credit_score, debt_ratio, delinquency_count) ==
    IF PdRaises(credit_score, debt_ratio, delinquency_count) THEN PdDefault
    ELSE Logistic(credit_score, debt_ratio, delinquency_count)

\* CreditRiskCalculator.calculate_pd
calculate_pd(credit_score, debt_ratio, delinquency_count) ==
    IF PdRaises(credit_score, debt_ratio, delinquency_count) THEN PdDefault
    ELSE PyMin(PyMax(Logistic(credit_score, debt_ratio, delinquency_count),
                     PdFloor), PdCap)

\* The loss rate on the secured portion (line 76), the default recovery rate
\* (line 54) and the fallback (line 83).
SecuredLossRate == Rat(2, 10)

DefaultRecoveryRate == Rat(4, 10)

LgdDefault == Rat(45, 100)

\* exposure <= 0 is evaluated first; past it the arithmetic on None raises.
LgdRaises(collateral_value, exposure, recovery_rate) ==
    \/ ~IsNum(exposure)
    \/ ~FLe(exposure, Num(0)) /\ (~IsNum(collateral_value) \/ ~IsNum(recovery_rate))

\* Slip: the secured portion counted as lost in full.
calculate_lgd_secured_lost(collateral_value, exposure, recovery_rate) ==
    IF LgdRaises(collateral_value, exposure, recovery_rate) THEN LgdDefault
    ELSE IF FLe(exposure, Num(0)) THEN Num(0)
    ELSE LET unsecured_portion == PyMax(Num(0), FSub(exposure, collateral_value))
             secured_portion == PyMin(exposure, collateral_value)
             expected_loss ==
                 FAdd(FMul(unsecured_portion, FSub(Num(1), recovery_rate)),
                      secured_portion)
             lgd == FDiv(expected_loss, exposure)
         IN  PyMin(PyMax(lgd, Num(0)), Num(1))

\* CreditRiskCalculator.calculate_lgd
calculate_lgd(collateral_value, exposure, recovery_rate) ==
    IF LgdRaises(collateral_value, exposure, recovery_rate) THEN LgdDefault
    ELSE IF FLe(exposure, Num(0)) THEN Num(0)
    ELSE LET unsecured_portion == PyMax(Num(0), FSub(exposure, collateral_value))
             secured_portion == PyMin(exposure, collateral_value)
             expected_loss ==
                 FAdd(FMul(unsecured_portion, FSub(Num(1), recovery_rate)),
                      FMul(secured_portion, SecuredLossRate))
             lgd == FDiv(expected_loss, exposure)
         IN  PyMin(PyMax(lgd, Num(0)), Num(1))

\* The default utilization rate (line 85).
DefaultUtilizationRate == Rat(75, 100)

EadRaises(current_balance, credit_limit, utilization_rate) ==
    ~IsNum(current_balance) \/ ~IsNum(credit_limit) \/ ~IsNum(utilization_rate)

\* Slip: the drawdown returned without the balance.
calculate_ead_drawdown_only(current_balance, credit_limit, utilization_rate) ==
    IF EadRaises(current_balance, credit_limit, utilization_rate)
    THEN current_balance
    ELSE LET unused_limit == FSub(credit_limit, current_balance)
             expected_drawdown == FMul(unused_limit, utilization_rate)
         IN  PyMax(expected_drawdown, Num(0))

\* CreditRiskCalculator.calculate_ead.  The except clause returns the
\* balance it was given.
calculate_ead(current_balance, credit_limit, utilization_rate) ==
    IF EadRaises(current_balance, credit_limit, utilization_rate)
    THEN current_balance
    ELSE LET unused_limit == FSub(credit_limit, current_balance)
             expected_drawdown == FMul(unused_limit, utilization_rate)
             ead == FAdd(current_balance, expected_drawdown)
         IN  PyMax(ead, Num(0))

\* CreditRiskCalculator.calculate_expected_loss; no try block, the TypeError
\* of a None factor reaches the caller.
ExpectedLossRaises(pd, lgd, ead) == ~IsNum(pd) \/ ~IsNum(lgd) \/ ~IsNum(ead)

calculate_expected_loss(pd, lgd, ead) == FMul(FMul(pd, lgd), ead)


-----------------------------------------------------------------------------
(* The REST boundary (src/api/risk_api.py).  A request is the dict that    *)
(* request.get_json() returns; a response is the jsonify'd body with the   *)
(* HTTP status (the timestamp field is left out).                          *)

\* dict.get(key, default)
Get(data, key, default) == IF key \in DOMAIN data THEN data[key] ELSE default

RECURSIVE Pow10(_)
Pow10(k) == IF k = 0 THEN 1 ELSE 10 * Pow10(k - 1)

\* <<floor(n * 10^k / d), remainder>> by long division, one digit a step.
RECURSIVE ScaledFloor(_, _, _)
ScaledFloor(n, d, k) ==
    IF k = 0 THEN <<n \div d, n % d>>
    ELSE LET p == ScaledFloor(n, d, k - 1)
         IN  <<p[1] * 10 + (p[2] * 10) \div d, (p[2] * 10) % d>>

\* round(x, ndigits): to the nearest multiple of 10^-ndigits, a tie to the
\* even one; NaN and inf are returned as they are.
Round(x, ndigits) ==
    IF ~IsFinite(x) THEN x
    ELSE LET p == ScaledFloor(x.n, x.d, ndigits)
             up == \/ 2 * p[2] > x.d
                   \/ 2 * p[2] = x.d /\ p[1] % 2 = 1
         IN  Rat(IF up THEN p[1] + 1 ELSE p[1], Pow10(ndigits))

Failure(status, error) == [success |-> FALSE, status |-> status, error |-> error]

\* The default confidence level of the endpoint (line 124).
DefaultConfidence == Rat(95, 100)

\* The named calculator method, if its except clause ran.
FellBack(name, raised) == IF raised THEN {name} ELSE {}

\* POST /api/v1/market-risk/var.  The response, the calculator methods
\* invoked, in order, and those of them that fell back to a default.
api_calculate_var(data, rng, np_empty) ==
    LET returns == Get(data, "returns", <<>>)
        confidence_level == Get(data, "confidence_level", DefaultConfidence)
        method == Get(data, "method", "historical")
        var == calculate_var(confidence_level, returns, method, rng, np_empty)
        cvar == calculate_cvar(confidence_level, returns, np_empty)
    IN  IF Len(returns) = 0
        THEN [response |-> Failure(400, "No returns data provided"), calls |-> <<>>,
              fallbacks |-> {}]
        ELSE [response |->
                [success |-> TRUE, status |-> 200,
                 metrics |-> [var |-> Round(var, 6),
                              cvar |-> Round(cvar, 6),
                              confidence_level |-> confidence_level,
                              method |-> method,
                              sample_size |-> Len(returns)]],
              calls |-> <<"calculate_var", "calculate_cvar">>,
              fallbacks |->
                  FellBack("calculate_var",
                           VarRaises(confidence_level, returns, method, rng, np_empty))
                  \cup FellBack("calculate_cvar",
                                HistoricalVarRaises(confidence_level, returns, np_empty))]

\* POST /api/v1/operational-risk/calculate.
api_calculate_operational_risk(data) ==
    LET loss_events == Get(data, "loss_events", <<>>)
        metrics == calculate_operational_risk_capital(loss_events)
    IN  IF loss_events = <<>>
        THEN [response |-> Failure(400, "No loss events provided"), calls |-> <<>>,
              fallbacks |-> {}]
        ELSE [response |->
                [success |-> TRUE, status |-> 200,
                 metrics |-> [expected_loss |-> Round(Get(metrics, "expected_loss", Num(0)), 2),
                              std_dev |-> Round(Get(metrics, "std_dev", Num(0)), 2),
                              max_loss |-> Round(Get(metrics, "max_loss", Num(0)), 2),
                              capital_requirement |->
                                  Round(Get(metrics, "capital_requirement", Num(0)), 2),
                              loss_count |-> Get(metrics, "loss_count", 0)]],
              calls |-> <<"calculate_operational_risk_capital">>,
              fallbacks |-> FellBack("calculate_operational_risk_capital",
                                     OperationalRiskRaises(loss_events))]

\* POST /api/v1/regulatory/rwa.  rwa_df['rwa'] and rwa_df['amount'] raise
\* KeyError when the column is missing; the handler answers 500.
api_calculate_rwa(data) ==
    LET exposures_data == Get(data, "exposures", <<>>)
        rwa_df == calculate_rwa(DataFrame(exposures_data))
        total_rwa == SumSkipNa(Col(rwa_df, "rwa"))
        total_exposure == SumSkipNa(Col(rwa_df, "amount"))
        fallbacks == FellBack("calculate_rwa", RwaRaises(DataFrame(exposures_data)))
    IN  IF exposures_data = <<>>
        THEN [response |-> Failure(400, "No exposures provided"), calls |-> <<>>,
              fallbacks |-> {}]
        ELSE IF "rwa" \notin rwa_df.cols
        THEN [response |-> Failure(500, "'rwa'"), calls |-> <<"calculate_rwa">>,
              fallbacks |-> fallbacks]
        ELSE IF "amount" \notin rwa_df.cols
        THEN [response |-> Failure(500, "'amount'"), calls |-> <<"calculate_rwa">>,
              fallbacks |-> fallbacks]
        ELSE [response |->
                [success |-> TRUE, status |-> 200,
                 summary |-> [total_exposure |-> Round(total_exposure, 2),
                              total_rwa |-> Round(total_rwa, 2),
                              average_risk_weight |->
                                  Round(IF FLt(Num(0), total_exposure)
                                        THEN FDiv(total_rwa, total_exposure)
                                        ELSE Num(0), 4)],
                 details |-> rwa_df.rows],
              calls |-> <<"calculate_rwa">>,
              fallbacks |-> fallbacks]

\* run_stress_test_api past its empty-portfolio check (lines 320-337).
StressTestResponse(portfolio_data, scenario) ==
    LET portfolio_df == DataFrame(portfolio_data)
        stressed_df == run_stress_test(portfolio_df, scenario)
        total_loss == SumSkipNa(Col(stressed_df, "loss"))
        total_value == SumSkipNa(Col(portfolio_df, "value"))
        loss_pct == IF FLt(Num(0), total_value)
                    THEN FMul(FDiv(total_loss, total_value), Num(100))
                    ELSE Num(0)
        fallbacks == FellBack("run_stress_test", StressTestRaises(portfolio_df, scenario))
    IN  IF "loss" \notin stressed_df.cols
        THEN [response |-> Failure(500, "'loss'"), calls |-> <<"run_stress_test">>,
              fallbacks |-> fallbacks]
        ELSE IF "value" \notin portfolio_df.cols
        THEN [response |-> Failure(500, "'value'"), calls |-> <<"run_stress_test">>,
              fallbacks |-> fallbacks]
        ELSE [response |->
                [success |-> TRUE, status |-> 200,
                 summary |-> [total_portfolio_value |-> Round(total_value, 2),
                              total_loss |-> Round(total_loss, 2),
                              loss_percentage |-> Round(loss_pct, 2)],
                 scenario |-> scenario,
                 details |-> stressed_df.rows],
              calls |-> <<"run_stress_test">>,
              fallbacks |-> fallbacks]

\* Slip: no check for an empty portfolio.
run_stress_test_api_unchecked(data) ==
    StressTestResponse(Get(data, "portfolio", <<>>), Get(data, "scenario", EmptyDict))

\* POST /api/v1/stress-test/run.
run_stress_test_api(data) ==
    LET portfolio_data == Get(data, "portfolio", <<>>)
        scenario == Get(data, "scenario", EmptyDict)
    IN  IF portfolio_data = <<>>
        THEN [response |-> Failure(400, "No portfolio data provided"), calls |-> <<>>,
              fallbacks |-> {}]
        ELSE StressTestResponse(portfolio_data, scenario)

\* POST /api/v1/credit-risk/calculate.  A key the request carries as null
\* reaches the calculator as None; calculate_expected_loss on a None factor
\* raises TypeError and the handler answers 500.
api_calculate_credit_risk(data) ==
    LET credit_score == Get(data, "credit_score", Num(700))
        debt_ratio == Get(data, "debt_ratio", Rat(3, 10))
        delinquency_count == Get(data, "delinquency_count", Num(0))
        collateral_value == Get(data, "collateral_value", Num(0))
        exposure == Get(data, "exposure", Num(100000))
        current_balance == Get(data, "current_balance", Num(50000))
        credit_limit == Get(data, "credit_limit", Num(100000))
        pd == calculate_pd(credit_score, debt_ratio, delinquency_count)
        lgd == calculate_lgd(collateral_value, exposure, DefaultRecoveryRate)
        ead == calculate_ead(current_balance, credit_limit, DefaultUtilizationRate)
        el == calculate_expected_loss(pd, lgd, ead)
        invoked == <<"calculate_pd", "calculate_lgd", "calculate_ead",
                     "calculate_expected_loss">>
        fallbacks ==
            FellBack("calculate_pd", PdRaises(credit_score, debt_ratio, delinquency_count))
            \cup FellBack("calculate_lgd",
                          LgdRaises(collateral_value, exposure, DefaultRecoveryRate))
            \cup FellBack("calculate_ead",
                          EadRaises(current_balance, credit_limit, DefaultUtilizationRate))
    IN  IF ExpectedLossRaises(pd, lgd, ead)
        THEN [response |-> Failure(500, "unsupported operand type(s) for *"),
              calls |-> invoked, fallbacks |-> fallbacks]
        ELSE [response |->
                [success |-> TRUE, status |-> 200,
                 metrics |-> [probability_of_default |-> Round(pd, 4),
                              loss_given_default |-> Round(lgd, 4),
                              exposure_at_default |-> Round(ead, 2),
                              expected_loss |-> Round(el, 2)]],
              calls |-> invoked, fallbacks |-> fallbacks]

\* Basel III minimum requirements (lines 257-261).
requirements ==
    [cet1_minimum |-> Rat(45, 1000), tier1_minimum |-> Rat(6, 100),
     total_capital_minimum |-> Rat(8, 100)]

\* POST /api/v1/regulatory/capital-ratios.  ratios.get(key, 0) reads a zero
\* for every key the calculator's result lacks.
api_calculate_capital_ratios(data) ==
    LET tier1_capital == Get(data, "tier1_capital", Num(0))
        tier2_capital == Get(data, "tier2_capital", Num(0))
        total_rwa == Get(data, "total_rwa", Num(0))
        ratios == calculate_capital_ratios(tier1_capital, tier2_capital, total_rwa)
    IN  [response |->
           [success |-> TRUE, status |-> 200,
            ratios |-> [cet1_ratio |-> Round(Get(ratios, "cet1_ratio", Num(0)), 4),
                        tier1_ratio |-> Round(Get(ratios, "tier1_ratio", Num(0)), 4),
                        total_capital_ratio |->
                            Round(Get(ratios, "total_capital_ratio", Num(0)), 4),
                        leverage_ratio |->
                            Round(Get(ratios, "leverage_ratio", Num(0)), 4)],
            requirements |-> requirements,
            compliance |->
                [cet1_compliant |->
                     FLe(requirements.cet1_minimum, Get(ratios, "cet1_ratio", Num(0))),
                 tier1_compliant |->
                     FLe(requirements.tier1_minimum, Get(ratios, "tier1_ratio", Num(0))),
                 total_capital_compliant |->
                     FLe(requirements.total_capital_minimum,
                         Get(ratios, "total_capital_ratio", Num(0)))]],
         calls |-> <<"calculate_capital_ratios">>,
         fallbacks |-> FellBack("calculate_capital_ratios",
                                CapitalRatiosRaises(tier1_capital, tier2_capital,
                                                    total_rwa))]

-----------------------------------------------------------------------------
(* The inputs the model draws.  Numbers are floats throughout.             *)

\* {} and the one-key dicts {key: v}, v in S.
OptKey(key, S) == {EmptyDict} \cup {key :> v : v \in S}

\* The tables with columns among those of the rows in Full, at most max rows.
Restrict(r, cols) == [c \in cols |-> r[c]]

TablesOf(Full, universe, max) ==
    UNION {{[cols |-> cols, rows |-> rows] :
              rows \in SeqsOf({Restrict(r, cols) : r \in Full}, 0, max)} :
           cols \in SUBSET universe}

\* The lists of dicts a request carries: every row has the same keys.
RecordsOf(Full, universe, max) ==
    UNION {SeqsOf({Restrict(r, cols) : r \in Full}, 0, max) :
           cols \in SUBSET universe}

CapitalInputs ==
    [tier1_capital : {None, Num(0), Num(2)},
     tier2_capital : {None, Num(0), Num(1)},
     total_rwa : {None, Num(-4), Num(0), Num(5), Num(20)}]

ExposureTypes ==
    {"sovereign", "bank", "corporate", "retail", "residential_mortgage",
     "commercial_real_estate", "equipment_lease"}

ExposureRows ==
    [exposure_type : ExposureTypes, amount : {Num(1000)},
     pd : {Rat(1, 50), NaN}, lgd : {Rat(1, 2)}]

\* The rows the model sends to the RWA endpoint.
ExposureRecords ==
    [exposure_type : {"retail", "equipment_lease"}, amount : {Num(1000)},
     pd : {Rat(1, 50)}, lgd : {Rat(1, 2)}]

ExposureColumns == {"exposure_type", "amount", "pd", "lgd"}

PositionRows ==
    [asset_class : {"equity", "fixed_income", "corporate_bond", "cash"},
     value : {Num(0), Num(1000)}, duration : {Num(3), NaN}]

PositionColumns == {"asset_class", "value", "duration"}

\* The rows the model sends to the stress-test endpoint.
PositionRecords ==
    [asset_class : {"equity", "fixed_income"}, value : {Num(1000)},
     duration : {Num(3)}]

Scenarios ==
    {a @@ b @@ c @@ d :
        a \in OptKey("equity_shock", {Rat(-3, 10)}),
        b \in OptKey("interest_rate_shock", {Rat(1, 50)}),
        c \in OptKey("credit_spread_shock", {Rat(-1, 10)}),
        d \in OptKey("fx_shock", {Rat(1, 10)})}

LossEvents ==
    {[amount |-> a, date |-> "2024-01-15"] : a \in {Num(0), Num(10), Num(40)}}
    \cup {[date |-> "2024-01-15"]}

ReturnValues == {Num(-3), Num(-1), Num(2)}

ConfidenceLevels == {Rat(1, 2), Rat(9, 10), Rat(95, 100), Rat(99, 100), Rat(3, 2)}

Methods == VarMethods \cup {"bogus"}

CreditScores == {None, Num(300), Num(550), Num(800), Num(850)}

DebtRatios == {NaN, Num(0), Rat(2, 10), Rat(8, 10)}

DelinquencyCounts == {Num(0), Num(3), Num(21)}

CollateralValues == {None, Num(-50), Num(0), Num(50), Num(100), Num(300)}

ExposureAmounts == {None, Num(-10), Num(0), Num(100), Num(250)}

RecoveryRates == {Num(0), DefaultRecoveryRate, Num(1)}

Balances == {None, Num(-100), Num(0), Num(50), Num(100), Num(150)}

CreditLimits == {None, Num(0), Num(100)}

UtilizationRates == {Num(0), DefaultUtilizationRate, Num(1), Rat(3, 2)}

Operations ==
    {"calculate_capital_ratios", "calculate_rwa", "run_stress_test",
     "calculate_operational_risk_capital", "calculate_var", "calculate_cvar",
     "api_calculate_var", "api_calculate_operational_risk", "api_calculate_rwa",
     "run_stress_test_api", "calculate_pd", "calculate_lgd", "calculate_ead",
     "api_calculate_credit_risk", "api_calculate_capital_ratios"}

ArgsOf(o) ==
    CASE o = "calculate_capital_ratios" -> CapitalInputs
      [] o = "calculate_rwa" ->
            {[exposures |-> t] : t \in TablesOf(ExposureRows, ExposureColumns, MaxExposures)}
      [] o = "run_stress_test" ->
            {[portfolio |-> t, scenario |-> s] :
                t \in TablesOf(PositionRows, PositionColumns, MaxPositions),
                s \in Scenarios}
      [] o = "calculate_operational_risk_capital" ->
            {[loss_events |-> e] : e \in SeqsOf(LossEvents, 0, MaxEvents)}
      [] o = "calculate_var" ->
            [confidence_level : ConfidenceLevels,
             returns : SeqsOf(ReturnValues, 0, MaxReturns),
             method : Methods]
      [] o = "calculate_cvar" ->
            [confidence_level : ConfidenceLevels,
             returns : SeqsOf(ReturnValues, 0, MaxReturns)]
      [] o = "api_calculate_var" ->
            {[data |-> a @@ b @@ c] :
                a \in OptKey("returns", SeqsOf(ReturnValues, 0, MaxReturns)),
                b \in OptKey("confidence_level", {Rat(99, 100), Rat(3, 2)}),
                c \in OptKey("method", Methods)}
      [] o = "api_calculate_operational_risk" ->
            {[data |-> a] : a \in OptKey("loss_events", SeqsOf(LossEvents, 0, MaxEvents))}
      [] o = "api_calculate_rwa" ->
            {[data |-> a] :
                a \in OptKey("exposures",
                             RecordsOf(ExposureRecords, ExposureColumns, MaxExposures))}
      [] o = "run_stress_test_api" ->
            {[data |-> a @@ b] :
                a \in OptKey("portfolio",
                             RecordsOf(PositionRecords, PositionColumns, MaxPositions)),
                b \in OptKey("scenario", Scenarios)}
      [] o = "calculate_pd" ->
            [credit_score : CreditScores, debt_ratio : DebtRatios,
             delinquency_count : DelinquencyCounts]
      [] o = "calculate_lgd" ->
            [collateral_value : CollateralValues, exposure : ExposureAmounts,
             recovery_rate : RecoveryRates]
      [] o = "calculate_ead" ->
            [current_balance : Balances, credit_limit : CreditLimits,
             utilization_rate : UtilizationRates]
      [] o = "api_calculate_credit_risk" ->
            {[data |-> a @@ b @@ c @@ d @@ e] :
                a \in OptKey("credit_score", {None, Num(550)}),
                b \in OptKey("delinquency_count", {Num(3)}),
                c \in OptKey("exposure", {None, Num(0)}),
                d \in OptKey("current_balance", {None}),
                e \in OptKey("credit_limit", {None})}
      [] o = "api_calculate_capital_ratios" ->
            {[data |-> a @@ b @@ c] :
                a \in OptKey("tier1_capital", {None, Num(2)}),
                b \in OptKey("tier2_capital", {Num(1)}),
                c \in OptKey("total_rwa", {None, Num(0), Num(20)})}

\* The call draws from np.random.
UsesRandom(o, a) ==
    \/ o = "calculate_var" /\ a.method = "monte_carlo"
    \/ /\ o = "api_calculate_var"
       /\ Get(a.data, "method", "historical") = "monte_carlo"
       /\ Len(Get(a.data, "returns", <<>>)) > 0

\* The call evaluates np.percentile on an empty array.
EmptyPercentile(o, a) ==
    o \in {"calculate_var", "calculate_cvar"} /\ a.returns = <<>>

-----------------------------------------------------------------------------
(* The state machine: one call of one operation, and for the functions in  *)
(* Repeatable a second call with the same argument objects.                *)

Init ==
    /\ pc = "ready"
    /\ op \in Operations
    /\ args \in ArgsOf(op)
    /\ ret = None
    /\ calls = <<>>
    /\ fell_back = {}
    /\ again = None
    /\ np_random \in (IF UsesRandom(op, args) THEN 0..(RngPeriod - 1) ELSE {0})
    /\ np_empty_percentile \in
           (IF EmptyPercentile(op, args) THEN {"nan", "IndexError"} ELSE {"nan"})

\* The functions the model calls twice.
Repeatable == {"calculate_rwa", "run_stress_test", "calculate_var"}

\* The call returns value to the caller: the first call's result is kept in
\* ret, the second call's in again.
Return(value) ==
    /\ \/ /\ pc = "ready"
          /\ ret' = value
          /\ pc' = "done"
          /\ UNCHANGED again
       \/ /\ pc = "done" /\ op \in Repeatable
          /\ again' = value
          /\ pc' = "repeated"
          /\ UNCHANGED ret
    /\ UNCHANGED <<op, np_empty_percentile>>

CalculateCapitalRatios ==
    /\ op = "calculate_capital_ratios"
    /\ Return(calculate_capital_ratios(args.tier1_capital, args.tier2_capital,
                                       args.total_rwa))
    /\ fell_back' = FellBack(op, CapitalRatiosRaises(args.tier1_capital,
                                                     args.tier2_capital, args.total_rwa))
    /\ UNCHANGED <<args, calls, np_random>>

CalculateRwa ==
    /\ op = "calculate_rwa"
    /\ Return(calculate_rwa(args.exposures))
    /\ args' = [args EXCEPT !.exposures = ExposuresAfterRwa(args.exposures)]
    /\ fell_back' = FellBack(op, RwaRaises(args.exposures))
    /\ UNCHANGED <<calls, np_random>>

RunStressTest ==
    /\ op = "run_stress_test"
    /\ Return(run_stress_test(args.portfolio, args.scenario))
    /\ args' = [args EXCEPT
                  !.portfolio = PortfolioAfterStressTest(args.portfolio, args.scenario)]
    /\ fell_back' = FellBack(op, StressTestRaises(args.portfolio, args.scenario))
    /\ UNCHANGED <<calls, np_random>>

CalculateOperationalRiskCapital ==
    /\ op = "calculate_operational_risk_capital"
    /\ Return(calculate_operational_risk_capital(args.loss_events))
    /\ fell_back' = FellBack(op, OperationalRiskRaises(args.loss_events))
    /\ UNCHANGED <<args, calls, np_random>>

CalculateVar ==
    /\ op = "calculate_var"
    /\ Return(calculate_var(args.confidence_level, args.returns, args.method,
                            np_random, np_empty_percentile))
    /\ np_random' = IF args.method = "monte_carlo"
                    THEN RngAfter(np_random, MaxSimulations) ELSE np_random
    /\ fell_back' = FellBack(op, VarRaises(args.confidence_level, args.returns,
                                           args.method, np_random, np_empty_percentile))
    /\ UNCHANGED <<args, calls>>

CalculateCvar ==
    /\ op = "calculate_cvar"
    /\ Return(calculate_cvar(args.confidence_level, args.returns, np_empty_percentile))
    /\ fell_back' = FellBack(op, HistoricalVarRaises(args.confidence_level, args.returns,
                                                     np_empty_percentile))
    /\ UNCHANGED <<args, calls, np_random>>

CalculatePd ==
    /\ op = "calculate_pd"
    /\ Return(calculate_pd(args.credit_score, args.debt_ratio, args.delinquency_count))
    /\ fell_back' = FellBack(op, PdRaises(args.credit_score, args.debt_ratio,
                                          args.delinquency_count))
    /\ UNCHANGED <<args, calls, np_random>>

CalculateLgd ==
    /\ op = "calculate_lgd"
    /\ Return(calculate_lgd(args.collateral_value, args.exposure, args.recovery_rate))
    /\ fell_back' = FellBack(op, LgdRaises(args.collateral_value, args.exposure,
                                           args.recovery_rate))
    /\ UNCHANGED <<args, calls, np_random>>

CalculateEad ==
    /\ op = "calculate_ead"
    /\ Return(calculate_ead(args.current_balance, args.credit_limit,
                            args.utilization_rate))
    /\ fell_back' = FellBack(op, EadRaises(args.current_balance, args.credit_limit,
                                           args.utilization_rate))
    /\ UNCHANGED <<args, calls, np_random>>

\* An endpoint handler: r is its response with the calculator methods it
\* invoked and those that fell back.
Respond(r) ==
    /\ Return(r.response)
    /\ calls' = r.calls
    /\ fell_back' = r.fallbacks
    /\ UNCHANGED args

ApiCalculateVar ==
    /\ op = "api_calculate_var"
    /\ Respond(api_calculate_var(args.data, np_random, np_empty_percentile))
    /\ np_random' = IF UsesRandom(op, args)
                    THEN RngAfter(np_random, MaxSimulations) ELSE np_random

ApiCalculateOperationalRisk ==
    /\ op = "api_calculate_operational_risk"
    /\ Respond(api_calculate_operational_risk(args.data))
    /\ UNCHANGED np_random

ApiCalculateRwa ==
    /\ op = "api_calculate_rwa"
    /\ Respond(api_calculate_rwa(args.data))
    /\ UNCHANGED np_random

RunStressTestApi ==
    /\ op = "run_stress_test_api"
    /\ Respond(run_stress_test_api(args.data))
    /\ UNCHANGED np_random

ApiCalculateCreditRisk ==
    /\ op = "api_calculate_credit_risk"
    /\ Respond(api_calculate_credit_risk(args.data))
    /\ UNCHANGED np_random

ApiCalculateCapitalRatios ==
    /\ op = "api_calculate_capital_ratios"
    /\ Respond(api_calculate_capital_ratios(args.data))
    /\ UNCHANGED np_random

Next ==
    \/ CalculateCapitalRatios
    \/ CalculateRwa
    \/ RunStressTest
    \/ CalculateOperationalRiskCapital
    \/ CalculateVar
    \/ CalculateCvar
    \/ CalculatePd
    \/ CalculateLgd
    \/ CalculateEad
    \/ ApiCalculateVar
    \/ ApiCalculateOperationalRisk
    \/ ApiCalculateRwa
    \/ RunStressTestApi
    \/ ApiCalculateCreditRisk
    \/ ApiCalculateCapitalRatios

Spec == Init /\ [][Next]_vars


-----------------------------------------------------------------------------
(* Properties.                                                             *)

Done(o) == pc = "done" /\ op = o

RatioKeys == {"cet1_ratio", "tier1_ratio", "total_capital_ratio"}

\* C1: with total_rwa <= 0, whatever tier 1 and tier 2 capital are,
\* calculate_capital_ratios returns cet1_ratio = tier1_ratio =
\* total_capital_ratio = 0, with leverage_ratio 0 or left out; it never
\* returns the empty result of its except clause.
C1_ZeroRwaGivesZeroRatios ==
    (/\ Done("calculate_capital_ratios")
     /\ IsNum(args.total_rwa)
     /\ FLe(args.total_rwa, Num(0)))
    => /\ RatioKeys \subseteq DOMAIN ret
       /\ DOMAIN ret \subseteq RatioKeys \cup {"leverage_ratio"}
       /\ \A k \in DOMAIN ret : ret[k] = Num(0)

C1_Witness ==
    /\ Done("calculate_capital_ratios")
    /\ args.total_rwa = Num(-4)
    /\ args.tier1_capital = Num(2)
    /\ RatioKeys \subseteq DOMAIN ret
    /\ ret.tier1_ratio = Num(0)

\* C2: with total_rwa > 0 and tier 1, tier 2 capital >= 0,
\* cet1_ratio = 0.9 * tier1 / total_rwa, tier1_ratio = tier1 / total_rwa,
\* total_capital_ratio = (tier1 + tier2) / total_rwa and
\* leverage_ratio = tier1 / (total_rwa * 0.03); so
\* cet1_ratio <= tier1_ratio <= total_capital_ratio, the last strictly when
\* tier2 > 0.
C2_CapitalRatioFormulas ==
    (/\ Done("calculate_capital_ratios")
     /\ IsNum(args.total_rwa) /\ FLt(Num(0), args.total_rwa)
     /\ IsNum(args.tier1_capital) /\ FLe(Num(0), args.tier1_capital)
     /\ IsNum(args.tier2_capital) /\ FLe(Num(0), args.tier2_capital))
    => /\ DOMAIN ret = RatioKeys \cup {"leverage_ratio"}
       /\ FMul(ret.cet1_ratio, FMul(args.total_rwa, Num(10)))
              = FMul(Num(9), args.tier1_capital)
       /\ FMul(ret.tier1_ratio, args.total_rwa) = args.tier1_capital
       /\ FMul(ret.total_capital_ratio, args.total_rwa)
              = FAdd(args.tier1_capital, args.tier2_capital)
       /\ FMul(ret.leverage_ratio, FMul(args.total_rwa, Num(3)))
              = FMul(Num(100), args.tier1_capital)
       /\ FLe(ret.cet1_ratio, ret.tier1_ratio)
       /\ FLe(ret.tier1_ratio, ret.total_capital_ratio)
       /\ FLt(Num(0), args.tier2_capital)
              => FLt(ret.tier1_ratio, ret.total_capital_ratio)

C2_Witness ==
    /\ Done("calculate_capital_ratios")
    /\ args.total_rwa = Num(20)
    /\ args.tier1_capital = Num(2)
    /\ args.tier2_capital = Num(1)
    /\ ret = [cet1_ratio |-> Rat(9, 100), tier1_ratio |-> Rat(1, 10),
              total_capital_ratio |-> Rat(15, 100), leverage_ratio |-> Rat(10, 3)]

\* The Basel table as the specification states it.
C3_TableWeight(exposure_type) ==
    CASE exposure_type = "sovereign" -> Num(0)
      [] exposure_type = "bank" -> Rat(1, 5)
      [] exposure_type = "corporate" -> Num(1)
      [] exposure_type = "retail" -> Rat(3, 4)
      [] exposure_type = "residential_mortgage" -> Rat(7, 20)
      [] exposure_type = "commercial_real_estate" -> Num(1)
      [] OTHER -> Num(1)

\* C3: for an exposures table (a table with the exposure_type and amount
\* columns), calculate_rwa returns one row per input row in the same order,
\* with the input's cells kept, risk_weight the Basel table entry of the
\* row's exposure_type (1.0 for an unrecognized type), rwa = amount *
\* risk_weight, and a column rwa_irb = amount * pd * lgd * 12.5 exactly when
\* the input has both the pd and the lgd column.
C3_RwaTable ==
    (/\ Done("calculate_rwa")
     /\ {"exposure_type", "amount"} \subseteq args.exposures.cols)
    => LET in == args.exposures
           irb == {"pd", "lgd"} \subseteq in.cols
       IN  /\ Len(ret.rows) = Len(in.rows)
           /\ ret.cols = in.cols \cup {"risk_weight", "rwa"}
                                 \cup (IF irb THEN {"rwa_irb"} ELSE {})
           /\ \A i \in 1..Len(in.rows) :
                LET r == ret.rows[i]
                IN  /\ DOMAIN r = ret.cols
                    /\ \A c \in in.cols : r[c] = in.rows[i][c]
                    /\ r["risk_weight"] = C3_TableWeight(in.rows[i]["exposure_type"])
                    /\ r["rwa"] = FMul(in.rows[i]["amount"], r["risk_weight"])
                    /\ irb => r["rwa_irb"] =
                                FMul(FMul(FMul(in.rows[i]["amount"], in.rows[i]["pd"]),
                                          in.rows[i]["lgd"]), Rat(25, 2))

C3_Witness ==
    /\ Done("calculate_rwa")
    /\ args.exposures.cols = ExposureColumns
    /\ Len(ret.rows) = 2
    /\ ret.rows[1]["exposure_type"] = "retail"
    /\ ret.rows[1]["rwa"] = Num(750)
    /\ ret.rows[1]["rwa_irb"] = Num(125)
    /\ ret.rows[2]["exposure_type"] = "equipment_lease"
    /\ ret.rows[2]["risk_weight"] = Num(1)


\* The stressed value the specification gives a position.
C4_Factor(row, scenario) ==
    IF row["asset_class"] = "equity" /\ "equity_shock" \in DOMAIN scenario
    THEN FAdd(Num(1), scenario["equity_shock"])
    ELSE IF row["asset_class"] = "fixed_income"
            /\ "interest_rate_shock" \in DOMAIN scenario
    THEN FSub(Num(1), FMul(IF "duration" \in DOMAIN row /\ ~IsNaN(row["duration"])
                           THEN row["duration"] ELSE Num(5),
                           scenario["interest_rate_shock"]))
    ELSE IF row["asset_class"] = "corporate_bond"
            /\ "credit_spread_shock" \in DOMAIN scenario
    THEN FAdd(Num(1), scenario["credit_spread_shock"])
    ELSE Num(1)

\* C4: for every portfolio (a table with the asset_class and value columns;
\* duration is optional) and every scenario, run_stress_test returns one row
\* per position whose value is the original times the factor of its asset
\* class when that shock key is in the scenario and the original otherwise,
\* with loss = original - stressed and, for a non-zero original,
\* loss_pct = loss / original * 100.
C4_StressedRows ==
    (/\ Done("run_stress_test")
     /\ {"asset_class", "value"} \subseteq args.portfolio.cols)
    => /\ Len(ret.rows) = Len(args.portfolio.rows)
       /\ \A i \in 1..Len(ret.rows) :
            LET orig == args.portfolio.rows[i]
                r == ret.rows[i]
            IN  /\ r["asset_class"] = orig["asset_class"]
                /\ r["value"] = FMul(orig["value"], C4_Factor(orig, args.scenario))
                /\ {"loss", "loss_pct"} \subseteq DOMAIN r
                /\ r["loss"] = FSub(orig["value"], r["value"])
                /\ orig["value"] # Num(0)
                     => FMul(r["loss_pct"], orig["value"]) = FMul(r["loss"], Num(100))

FiveKeys == {"expected_loss", "std_dev", "max_loss", "capital_requirement", "loss_count"}

\* C5: calculate_operational_risk_capital on an empty loss_events sequence
\* returns expected_loss, std_dev, max_loss, capital_requirement and
\* loss_count, all present and all 0.
C5_EmptyEventsAllZero ==
    (Done("calculate_operational_risk_capital") /\ args.loss_events = <<>>)
    => /\ FiveKeys \subseteq DOMAIN ret
       /\ \A k \in FiveKeys \ {"loss_count"} : ret[k] = Num(0)
       /\ ret["loss_count"] = 0

AmountsOf(loss_events) == [i \in 1..Len(loss_events) |-> loss_events[i]["amount"]]

WellFormedEvents(loss_events) ==
    /\ loss_events # <<>>
    /\ \A i \in 1..Len(loss_events) :
         /\ "amount" \in DOMAIN loss_events[i]
         /\ FLe(Num(0), loss_events[i]["amount"])

\* C6: for a non-empty loss_events sequence whose events all have an
\* amount >= 0, loss_count is the number of events, max_loss the largest
\* amount, expected_loss the mean of the amounts, std_dev >= 0 and
\* capital_requirement = expected_loss + 3 * std_dev; so capital_requirement
\* >= expected_loss, strictly when the amounts are not all equal.
C6_OperationalRiskCapital ==
    (/\ Done("calculate_operational_risk_capital")
     /\ WellFormedEvents(args.loss_events))
    => LET a == AmountsOf(args.loss_events)
       IN  /\ DOMAIN ret = FiveKeys
           /\ ret.loss_count = Len(a)
           /\ \E i \in 1..Len(a) : ret.max_loss = a[i]
           /\ \A i \in 1..Len(a) : FLe(a[i], ret.max_loss)
           /\ FMul(ret.expected_loss, Num(Len(a))) = FSum(a)
           /\ FLe(Num(0), ret.std_dev)
           /\ ret.capital_requirement
                  = FAdd(ret.expected_loss, FMul(Num(3), ret.std_dev))
           /\ FLe(ret.expected_loss, ret.capital_requirement)
           /\ (\E i, j \in 1..Len(a) : a[i] # a[j])
                  => FLt(ret.expected_loss, ret.capital_requirement)

C6_Witness ==
    /\ Done("calculate_operational_risk_capital")
    /\ WellFormedEvents(args.loss_events)
    /\ AmountsOf(args.loss_events) = <<Num(10), Num(40), Num(10)>>
    /\ ret.expected_loss = Num(20)
    /\ ret.max_loss = Num(40)
    /\ ret.loss_count = 3
    /\ FLt(Num(60), ret.capital_requirement)


InUnitInterval(c) == FLt(Num(0), c) /\ FLt(c, Num(1))

\* C7: for a non-empty return sample and a confidence level in (0,1),
\* calculate_cvar returns at most the historical VaR of the sample at that
\* level, and it is the mean of a non-empty tail (the returns <= VaR), not
\* the VaR fallback.
C7_CvarAtMostVar ==
    (/\ Done("calculate_cvar")
     /\ args.returns # <<>>
     /\ InUnitInterval(args.confidence_level))
    => LET var == _historical_var(args.confidence_level, args.returns)
           tail == {i \in 1..Len(args.returns) : FLe(args.returns[i], var)}
       IN  /\ tail # {}
           /\ FLe(ret, var)
           /\ \E i \in tail : FLe(args.returns[i], ret)
           /\ \E i \in tail : FLe(ret, args.returns[i])

C7_Witness ==
    /\ Done("calculate_cvar")
    /\ args.returns = <<Num(2), Num(-3), Num(-1)>>
    /\ args.confidence_level = Rat(1, 2)
    /\ ret = Num(-2)
    /\ _historical_var(args.confidence_level, args.returns) = Num(-1)

\* C8: on one non-empty return sample, the historical VaR at a confidence
\* level c2 in (0,1) is at most the historical VaR at every lower level c1
\* in (0,1).
C8_VarMonotoneInConfidence ==
    (/\ Done("calculate_var")
     /\ args.method = "historical"
     /\ args.returns # <<>>
     /\ InUnitInterval(args.confidence_level))
    => \A c1 \in ConfidenceLevels :
         (InUnitInterval(c1) /\ FLt(c1, args.confidence_level))
         => FLe(ret, calculate_var(c1, args.returns, "historical",
                                   np_random, np_empty_percentile))

C8_Witness ==
    /\ Done("calculate_var")
    /\ args.method = "historical"
    /\ args.returns = <<Num(2), Num(-3), Num(-1)>>
    /\ args.confidence_level = Rat(99, 100)
    /\ ret = Rat(-74, 25)
    /\ calculate_var(Rat(95, 100), args.returns, "historical",
                     np_random, np_empty_percentile) = Rat(-14, 5)

\* C9: a market-risk request whose method is not historical, parametric or
\* monte_carlo is answered with a failure; no success response carries a
\* VaR for an unknown method.
C9_UnknownMethodRejected ==
    (/\ Done("api_calculate_var")
     /\ "method" \in DOMAIN args.data
     /\ args.data["method"] \notin {"historical", "parametric", "monte_carlo"})
    => ret.success = FALSE

Endpoints ==
    {"api_calculate_var", "api_calculate_operational_risk", "api_calculate_rwa",
     "run_stress_test_api"}

\* The sequence an endpoint requires.
RequiredKey(o) ==
    CASE o = "api_calculate_var" -> "returns"
      [] o = "api_calculate_operational_risk" -> "loss_events"
      [] o = "api_calculate_rwa" -> "exposures"
      [] o = "run_stress_test_api" -> "portfolio"

MissingRequired ==
    /\ op \in Endpoints
    /\ \/ RequiredKey(op) \notin DOMAIN args.data
       \/ args.data[RequiredKey(op)] = <<>>

\* C10: at the market-risk, operational-risk, RWA and stress-test endpoints
\* a request whose returns, loss_events, exposures or portfolio is empty or
\* absent is answered with success = false, and no calculator is invoked
\* for it.
C10_EmptyRequestRejected ==
    MissingRequired
    => /\ calls = <<>>
       /\ pc = "done" => ret.success = FALSE

C10_Witness ==
    /\ Done("run_stress_test_api")
    /\ "portfolio" \in DOMAIN args.data
    /\ args.data["portfolio"] = <<>>
    /\ "equity_shock" \in DOMAIN Get(args.data, "scenario", EmptyDict)
    /\ ret.success = FALSE
    /\ ret.status = 400
    /\ calls = <<>>

\* Finite, non-NaN floats.
AllFinite(S) == \A x \in S : IsFinite(x)

\* C11: for credit_score in [300, 850], debt_ratio >= 0 and
\* delinquency_count >= 0, calculate_pd returns a PD with
\* 0.0001 <= PD <= 0.9999; a call that ended in the except clause returns
\* 0.05, which is inside the same interval.
C11_PdWithinBounds ==
    Done("calculate_pd")
    => /\ (/\ AllFinite({args.credit_score, args.debt_ratio, args.delinquency_count})
           /\ FLe(Num(300), args.credit_score) /\ FLe(args.credit_score, Num(850))
           /\ FLe(Num(0), args.debt_ratio)
           /\ FLe(Num(0), args.delinquency_count))
          => /\ IsFinite(ret)
             /\ ~FLess(ret, Rat(1, 10000))
             /\ ~FLess(Rat(9999, 10000), ret)
       /\ "calculate_pd" \in fell_back
          => /\ ret = Rat(1, 20)
             /\ ~FLess(ret, Rat(1, 10000))
             /\ ~FLess(Rat(9999, 10000), ret)

\* A call on the normal path whose logistic value lies strictly inside the
\* clamp.
C11_Witness ==
    /\ Done("calculate_pd")
    /\ args.credit_score = Num(550)
    /\ args.debt_ratio = Rat(4, 5)
    /\ args.delinquency_count = Num(3)
    /\ fell_back = {}
    /\ FLess(Rat(1, 10000), ret)
    /\ FLess(ret, Rat(9999, 10000))

\* C12: holding the other two inputs fixed, calculate_pd does not decrease
\* when debt_ratio or delinquency_count grows and does not increase when
\* credit_score grows; so a borrower who is no better on any of the three
\* never gets a smaller PD, and PD(550, 0.8, 3) > PD(800, 0.2, 0).
C12_PdMonotone ==
    (/\ Done("calculate_pd")
     /\ AllFinite({args.credit_score, args.debt_ratio, args.delinquency_count}))
    => /\ \A cs \in CreditScores, dr \in DebtRatios, dc \in DelinquencyCounts :
            (/\ AllFinite({cs, dr, dc})
             /\ FLe(cs, args.credit_score)
             /\ FLe(args.debt_ratio, dr)
             /\ FLe(args.delinquency_count, dc))
            => ~FLess(calculate_pd(cs, dr, dc), ret)
       /\ (/\ args.credit_score = Num(800)
           /\ args.debt_ratio = Rat(1, 5)
           /\ args.delinquency_count = Num(0))
          => FLess(ret, calculate_pd(Num(550), Rat(4, 5), Num(3)))

C12_Witness ==
    /\ Done("calculate_pd")
    /\ args.credit_score = Num(550)
    /\ args.debt_ratio = Rat(1, 5)
    /\ args.delinquency_count = Num(0)
    /\ FLess(ret, calculate_pd(Num(550), Rat(4, 5), Num(3)))
    /\ FLess(ret, calculate_pd(Num(300), Rat(1, 5), Num(0)))
    /\ FLess(calculate_pd(Num(550), Rat(4, 5), Num(3)),
             calculate_pd(Num(550), Rat(4, 5), Num(21)))

\* C13: calculate_lgd returns 0 when exposure <= 0; for exposure > 0,
\* collateral_value >= 0 and recovery_rate in [0, 1] it returns
\* (max(0, exposure - collateral) * (1 - recovery_rate)
\*  + min(exposure, collateral) * 0.2) / exposure, a value in [0, 1]; with
\* recovery_rate 0.4 the value is below 0.5 when collateral >= exposure and
\* above 0.5 when collateral = 0.
C13_LgdFormula ==
    Done("calculate_lgd")
    => /\ (IsFinite(args.exposure) /\ FLe(args.exposure, Num(0))) => ret = Num(0)
       /\ (/\ AllFinite({args.exposure, args.collateral_value, args.recovery_rate})
           /\ FLt(Num(0), args.exposure)
           /\ FLe(Num(0), args.collateral_value)
           /\ FLe(Num(0), args.recovery_rate) /\ FLe(args.recovery_rate, Num(1)))
          => LET e == args.exposure
                 c == args.collateral_value
                 unsecured == IF FLe(e, c) THEN Num(0) ELSE FSub(e, c)
                 secured == IF FLe(e, c) THEN e ELSE c
             IN  /\ ret = FDiv(FAdd(FMul(unsecured, FSub(Num(1), args.recovery_rate)),
                                    FMul(secured, Rat(1, 5))), e)
                 /\ FLe(Num(0), ret) /\ FLe(ret, Num(1))
                 /\ (args.recovery_rate = Rat(2, 5) /\ FLe(e, c))
                    => FLt(ret, Rat(1, 2))
                 /\ (args.recovery_rate = Rat(2, 5) /\ c = Num(0))
                    => FLt(Rat(1, 2), ret)

\* Half of the exposure is secured: (50 * 0.6 + 50 * 0.2) / 100.
C13_Witness ==
    /\ Done("calculate_lgd")
    /\ args.exposure = Num(100)
    /\ args.collateral_value = Num(50)
    /\ args.recovery_rate = Rat(2, 5)
    /\ ret = Rat(2, 5)

DurationMissing(row) == "duration" \notin DOMAIN row \/ IsNaN(row["duration"])

\* C15: when the scenario contains interest_rate_shock, for every portfolio
\* with the asset_class and value columns (with or without a duration
\* column) the result carries loss and loss_pct, and every fixed_income
\* position whose duration is missing has its value multiplied by
\* 1 - 5 * interest_rate_shock.
C15_MissingDurationIsFive ==
    (/\ Done("run_stress_test")
     /\ "interest_rate_shock" \in DOMAIN args.scenario
     /\ {"asset_class", "value"} \subseteq args.portfolio.cols)
    => /\ {"loss", "loss_pct"} \subseteq ret.cols
       /\ \A i \in 1..Len(args.portfolio.rows) :
            LET orig == args.portfolio.rows[i]
            IN  (orig["asset_class"] = "fixed_income" /\ DurationMissing(orig))
                => ret.rows[i]["value"] =
                       FMul(orig["value"],
                            FSub(Num(1),
                                 FMul(Num(5), args.scenario["interest_rate_shock"])))

\* A step of run_stress_test or calculate_rwa leaves the arguments as they
\* were, and the second call returns what the first returned.
C16_Step ==
    op \in {"calculate_rwa", "run_stress_test"}
    => /\ args' = args
       /\ pc' = "repeated" => again' = ret'

LacksKey(records, keys) ==
    \E i \in 1..Len(records) : ~(keys \subseteq DOMAIN records[i])

\* The request carries a table without a required column, or a loss event
\* without amount.
MalformedRequest ==
    \/ /\ op = "api_calculate_rwa"
       /\ LacksKey(Get(args.data, "exposures", <<>>), {"exposure_type", "amount"})
    \/ /\ op = "run_stress_test_api"
       /\ LacksKey(Get(args.data, "portfolio", <<>>), {"asset_class", "value"})
    \/ /\ op = "api_calculate_operational_risk"
       /\ LacksKey(Get(args.data, "loss_events", <<>>), {"amount"})

\* C17: a request whose table lacks a required column (exposure_type or
\* amount for RWA, asset_class or value for the stress test) or whose loss
\* event lacks amount is answered with a validation failure (status 400)
\* and no calculator is invoked for it.
C17_MalformedRejected ==
    (pc = "done" /\ MalformedRequest)
    => /\ calls = <<>>
       /\ ret.success = FALSE
       /\ ret.status = 400

AllEndpoints ==
    Endpoints \cup {"api_calculate_credit_risk", "api_calculate_capital_ratios"}

\* C18: at every endpoint, a request during which a calculator ended in
\* its except clause and returned its default is answered with
\* success = false; no response carries a flag that marks values as
\* defaults, so success = true never goes with a substituted default.
C18_FallbackNeverSuccess ==
    (pc = "done" /\ op \in AllEndpoints /\ fell_back # {})
    => ret.success = FALSE

\* C19: two monte_carlo calculate_var calls with the same returns and
\* confidence level (the code has no seed parameter to vary) return the
\* same VaR, and that VaR is the same for every state the global
\* np.random generator can be in when the call is made.
C19_MonteCarloReproducible ==
    (pc = "repeated" /\ op = "calculate_var" /\ args.method = "monte_carlo")
    => /\ again = ret
       /\ \A rng \in 0..(RngPeriod - 1) :
            calculate_var(args.confidence_level, args.returns, args.method,
                          rng, np_empty_percentile) = ret


====
